---- MODULE Spec2Model ----
(***************************************************************************)
(* A model of scripts/rss_to_hugo_ai.py: the run of main() over a feed,    *)
(* the retry loop of post_openai and its wait, the commentary selection of *)
(* gen_article_comment_tags, the fingerprint normalisation _norm_mike,     *)
(* parse_json_strict_or_slice and save_seen_mike.                          *)
(*                                                                         *)
(* Characters are one-element strings named after the character they stand *)
(* for; a Python str is a sequence of them.  None is the empty sequence of  *)
(* an optional value (<<>> is None, <<v>> is the value v).                  *)
(***************************************************************************)
EXTENDS Integers, Sequences, FiniteSets, TLC

\* ------------------------------------------------------------------ bounds
MaxFeed == 3
MaxRuns == 2
MaxCap == 2
MaxLen == 3
MaxCands == 3

\* ------------------------------------------------------- program constants
\* post_openai(url, payload, timeout=60, max_attempts=5)
MaxAttempts == 5
\* if picked and len(picked) > 120
MaxMikeLen == 120
\* picked[:118]
MikeCut == 118

\* ------------------------------------------------------------- characters
SP == "SP"          \* U+0020
ZSP == "ZSP"        \* U+3000, the ideographic space: \s matches it
KUTEN == "KUTEN"    \* the ideographic full stop, in both character sets
DOT == "DOT"        \* ASCII full stop: stripped by rstrip, kept by _norm_mike
LQUOTE == "LQUOTE"  \* left corner bracket: dropped by _norm_mike only
NI == "NI"          \* first character of the terminal marker
YA == "YA"          \* second character of the terminal marker
Letters == {"a", "b", "7"}

WhiteSpace == {SP, ZSP}
\* the characters of the class at line 108 that the model's alphabet holds
NormPunct == {KUTEN, LQUOTE}
\* the characters of rstrip's argument at lines 265 and 279 that it holds
RStripSet == {KUTEN, DOT}
Marker == <<NI, YA>>
Chars == Letters \cup WhiteSpace \cup {KUTEN, DOT, LQUOTE, NI, YA}

\* ---------------------------------------------------------- str operations
\* re.sub(r"[class]+", "", s) and re.sub(r"[class]", "", s): every character of
\* the class goes
Without(s, class) == SelectSeq(s, LAMBDA c : c \notin class)

\* str.lstrip(class)
LStrip(s, class) ==
    IF \A k \in 1..Len(s) : s[k] \in class THEN <<>>
    ELSE LET first == CHOOSE k \in 1..Len(s) :
                          s[k] \notin class /\ \A j \in 1..(k - 1) : s[j] \in class
         IN SubSeq(s, first, Len(s))

\* str.rstrip(class)
RStrip(s, class) ==
    IF \A k \in 1..Len(s) : s[k] \in class THEN <<>>
    ELSE LET last == CHOOSE k \in 1..Len(s) :
                         s[k] \notin class /\ \A j \in (k + 1)..Len(s) : s[j] \in class
         IN SubSeq(s, 1, last)

\* str.strip()
Strip(s) == LStrip(RStrip(s, WhiteSpace), WhiteSpace)

\* re.sub(r"\s+", " ", s): every maximal run of whitespace becomes one U+0020
CollapseWs(s) ==
    LET tagged == [i \in 1..Len(s) |->
                     IF s[i] \in WhiteSpace
                     THEN <<SP, i = 1 \/ s[i - 1] \notin WhiteSpace>>
                     ELSE <<s[i], TRUE>>]
        kept == SelectSeq(tagged, LAMBDA p : p[2])
    IN [i \in 1..Len(kept) |-> kept[i][1]]

\* str.endswith
EndsWith(s, suf) ==
    Len(s) >= Len(suf) /\ SubSeq(s, Len(s) - Len(suf) + 1, Len(s)) = suf

\* s[:n]
Prefix(s, n) == SubSeq(s, 1, IF Len(s) < n THEN Len(s) ELSE n)

\* _norm_mike with the second substitution missing
NormMikeNoPunct(s) == Without(s, WhiteSpace)

\* def _norm_mike(s)
NormMike(s) == Without(Without(s, WhiteSpace), NormPunct)

\* ------------------------------------------- gen_article_comment_tags
\* A candidate of obj["mike_candidates"]: isStr is isinstance(raw, str), text is
\* the string itself, or str(raw) when it is not a string.
Cand(isStr, text) == [isStr |-> isStr, text |-> text]

\* line = re.sub(r"\s+", " ", raw.strip())
LineOf(text) == CollapseWs(Strip(text))

\* if not line.endswith(marker): line = (line.rstrip(...) + marker).strip()
WithMarker(line) ==
    IF EndsWith(line, Marker) THEN line
    ELSE Strip(RStrip(line, RStripSet) \o Marker)

\* if picked and len(picked) > 120: picked = picked[:118].rstrip() + marker
Truncate(picked) ==
    IF picked # <<>> /\ Len(picked) > MaxMikeLen
    THEN RStrip(Prefix(picked, MikeCut), WhiteSpace) \o Marker
    ELSE picked

NonePick == [picked |-> <<>>, norm |-> <<>>]

RECURSIVE PickLoopNoSeenTest(_, _, _)
\* the loop with the membership test in seen_mike_normed left out
PickLoopNoSeenTest(cands, i, seenNormed) ==
    IF i > Len(cands) THEN NonePick
    ELSE IF ~cands[i].isStr THEN PickLoopNoSeenTest(cands, i + 1, seenNormed)
    ELSE LET line == LineOf(cands[i].text) IN
         IF line = <<>> THEN PickLoopNoSeenTest(cands, i + 1, seenNormed)
         ELSE LET marked == WithMarker(line)
                  normed == NormMike(marked) IN
              IF normed # <<>>
              THEN [picked |-> <<marked>>, norm |-> <<normed>>]
              ELSE PickLoopNoSeenTest(cands, i + 1, seenNormed)

RECURSIVE PickLoop(_, _, _)
\* for raw in cands: ... break, from candidate i on
PickLoop(cands, i, seenNormed) ==
    IF i > Len(cands) THEN NonePick
    ELSE IF ~cands[i].isStr THEN PickLoop(cands, i + 1, seenNormed)
    ELSE LET line == LineOf(cands[i].text) IN
         IF line = <<>> THEN PickLoop(cands, i + 1, seenNormed)
         ELSE LET marked == WithMarker(line)
                  normed == NormMike(marked) IN
              IF normed # <<>> /\ normed \notin seenNormed
              THEN [picked |-> <<marked>>, norm |-> <<normed>>]
              ELSE PickLoop(cands, i + 1, seenNormed)

\* if not picked and cands: the first candidate, whatever it is
Fallback(p, cands) ==
    IF (p.picked = <<>> \/ p.picked[1] = <<>>) /\ cands # <<>>
    THEN LET line == WithMarker(LineOf(cands[1].text)) IN
         [picked |-> <<line>>, norm |-> <<NormMike(line)>>]
    ELSE p

\* lines 255-287: the chosen line and its fingerprint, each None or a value
GenPick(cands, seenNormed) ==
    LET p == Fallback(PickLoop(cands, 1, seenNormed), cands) IN
    [picked |-> IF p.picked = <<>> THEN <<>> ELSE <<Truncate(p.picked[1])>>,
     norm |-> p.norm]

\* ----------------------------------------------------------------- inputs
\* A feed entry as main() reads it: e.get("id"), e.get("link"), and the
\* directory build_dirname derives from its title and date.  "" is a missing
\* (or empty) field.
Entry(id, link, dir) == [id |-> id, link |-> link, dir |-> dir]

EntryPool ==
    { Entry("a", "la", "d1"),
      Entry("", "lb", "d2"),
      Entry("", "", "d3") }

\* eid = e.get("id") or e.get("link")
EidOf(e) == IF e.id # "" THEN e.id ELSE e.link

Keys == { EidOf(e) : e \in EntryPool } \ {""}
Dirs == { e.dir : e \in EntryPool }

SeqsUpTo(S, n) == UNION { [1..k -> S] : k \in 0..n }

Feeds == SeqsUpTo(EntryPool, MaxFeed)

\* what one request of post_openai can come back with
Responses == {"ok", "rate429", "quota429", "e401", "http_error"}
Fatal == {"fatal_quota", "fatal_auth", "fatal_retries"}

\* the commentary candidates a parsed response brings, in main's runs
CandA == Cand(TRUE, <<"a", NI, YA>>)
CandB == Cand(TRUE, <<"b", KUTEN>>)
\* what parse_json_strict_or_slice can return in main's runs: an object with
\* every field, and an object without article_md and mike_candidates, whose
\* article_md is then "" and whose cands is []
Payloads ==
    { [article |-> "body", cands |-> <<CandA, CandB>>],
      [article |-> "empty", cands |-> <<>>] }

\* lines 404-408: the text of index.md, as far as the claims look at it: whether
\* the header has the cover block (build_front_matter's include_cover, lines
\* 343-349) and the body, which is article_md
Document(includeCover, articleMd) == [cover |-> includeCover, body |-> articleMd]

\* no index.md written
NoDoc == [cover |-> FALSE, body |-> "none"]

\* ------------------------------------------------------------------ state
VARIABLES
    feed,        \* feed.entries, the same in every run
    cap,         \* MAX_NEW_POSTS
    skipImage,   \* SKIP_IMAGE
    diskSeen,    \* the list in SEEN_PATH, as a set
    diskMike,    \* the list in MIKE_SEEN_PATH, as a set
    posts,       \* POSTS_DIR: per directory, the state of its index.md
    run,         \* the number of the run of main()
    pc,          \* where main() is
    seen,        \* main's seen
    seenMike,    \* main's seen_mike_normed
    created,     \* main's created
    checked,     \* main's checked
    idx,         \* the position in feed.entries of the loop's entry e
    caller,      \* which of gen_article_comment_tags / gen_image_png called post_openai
    attempt,     \* post_openai's attempt
    poResult,    \* how post_openai ended: a response returned or an exception raised
    article,     \* article_md
    mike,        \* (mike_comment, mike_norm)
    hasImage,    \* has_image
    imgFile,     \* the state of the entry's featured.png
    imgErr,      \* how the entry's image step failed, if it did
    doc,         \* what was written to the entry's index.md
    hist,        \* the responses of the current call of post_openai, in order
    sleeps,      \* the number of time.sleep(wait) of the current call
    reqs,        \* the number of requests.post of the current call
    loaded,      \* the SeenSet as load_seen returned it in this run
    called,      \* the positions whose entry had an upstream request in this run
    wrote,       \* the positions whose entry had a file written in this run
    mdDone,      \* the positions whose index.md was written completely in this run
    failedText,  \* the positions whose text generation or parsing failed recoverably
    marked,      \* the positions whose entry was marked seen in this run
    attempted,   \* the positions whose entry reached the try block in this run
    everCreated, \* the keys a package was created for in an earlier, completed run
    normS,       \* _norm_mike's argument
    normT,       \* normS with whitespace and stripped characters put in or taken out
    normOut,     \* None, or the results of _norm_mike on normS and normT
    selCands,    \* the selection's cands
    selSeen,     \* the selection's seen_mike_normed
    selOut,      \* None, or the selection's (picked, picked_norm)
    jsText,      \* parse_json_strict_or_slice's argument
    jsOut,       \* None, or what parse_json_strict_or_slice returned or raised
    mikeOld,     \* the fingerprints load_seen_mike returned
    mikeNew,     \* the fingerprints the run has added to seen_mike_normed
    keepLast,    \* save_seen_mike's keep_last
    mikeSaved,   \* None, or the list save_seen_mike wrote
    hdr,         \* r.headers.get("retry-after"): None or its text
    waitOut      \* None, or the wait post_openai computed

confVars == <<feed, cap, skipImage>>
diskVars == <<diskSeen, diskMike, posts>>
mainVars == <<pc, seen, seenMike, created, checked, idx>>
entryVars == <<article, mike, hasImage, imgFile, imgErr, doc>>
callVars == <<caller, attempt, poResult, hist, sleeps, reqs>>
histVars == <<loaded, called, wrote, mdDone, failedText, marked, attempted>>
normVars == <<normS, normT, normOut>>
selVars == <<selCands, selSeen, selOut>>
parseVars == <<jsText, jsOut>>
keepVars == <<mikeOld, mikeNew, keepLast, mikeSaved>>
waitVars == <<hdr, waitOut>>
otherPure == <<parseVars, keepVars, waitVars>>
pureVars == <<normVars, selVars, otherPure>>
vars == <<confVars, diskVars, run, mainVars, entryVars, callVars, histVars,
          everCreated, pureVars>>

\* the keys of the entries at the positions P
KeysOf(P) == { EidOf(feed[i]) : i \in P }

ParseIdle == jsText = <<>> /\ jsOut = <<>>

KeepIdle == mikeOld = {} /\ mikeNew = {} /\ keepLast = 1 /\ mikeSaved = <<>>

WaitIdle == hdr = <<>> /\ waitOut = <<>>

\* the pure functions' variables while main() is what runs
PureIdle ==
    /\ normS = <<>> /\ normT = <<>> /\ normOut = <<>>
    /\ selCands = <<>> /\ selSeen = {} /\ selOut = <<>>
    /\ ParseIdle /\ KeepIdle /\ WaitIdle

\* main()'s variables while a pure function is what runs
MainIdle ==
    /\ feed = <<>> /\ cap = 0 /\ skipImage = FALSE
    /\ diskSeen = {} /\ diskMike = {} /\ posts = [d \in Dirs |-> "none"]
    /\ run = 1 /\ pc = "idle"
    /\ seen = {} /\ seenMike = {} /\ created = 0 /\ checked = 0 /\ idx = 1
    /\ caller = "none" /\ attempt = 1 /\ poResult = "none"
    /\ article = "none" /\ mike = NonePick /\ hasImage = FALSE /\ imgFile = "none"
    /\ imgErr = "none" /\ doc = NoDoc
    /\ hist = <<>> /\ sleeps = 0 /\ reqs = 0
    /\ loaded = {} /\ called = {} /\ wrote = {} /\ mdDone = {}
    /\ failedText = {} /\ marked = {} /\ attempted = {}
    /\ everCreated = {}

Init ==
    /\ PureIdle
    /\ feed \in Feeds
    /\ cap \in 0..MaxCap
    /\ skipImage \in BOOLEAN
    /\ diskSeen = {}
    /\ diskMike = {}
    /\ posts = [d \in Dirs |-> "none"]
    /\ run = 1
    /\ pc = "start"
    /\ seen = {} /\ seenMike = {} /\ created = 0 /\ checked = 0 /\ idx = 1
    /\ caller = "none" /\ attempt = 1 /\ poResult = "none"
    /\ article = "none" /\ mike = NonePick /\ hasImage = FALSE /\ imgFile = "none"
    /\ imgErr = "none" /\ doc = NoDoc
    /\ hist = <<>> /\ sleeps = 0 /\ reqs = 0
    /\ loaded = {} /\ called = {} /\ wrote = {} /\ mdDone = {}
    /\ failedText = {} /\ marked = {} /\ attempted = {}
    /\ everCreated = {}

\* ------------------------------------------------------------ load / save
\* load_seen() forgetting the file
LoadSeenEmpty == {}

\* load_seen(): the set of the file's elements
LoadSeen == diskSeen

\* load_seen_mike()
LoadSeenMike == diskMike

\* save_seen(seen): the file's new content
SaveSeen(s) == s

\* save_seen_mike(seen): the file's new content
SaveSeenMike(s) == s

\* lines 355-359
LoadState ==
    /\ pc = "start"
    /\ seen' = LoadSeen
    /\ seenMike' = LoadSeenMike
    /\ created' = 0 /\ checked' = 0 /\ idx' = 1
    /\ pc' = "loop"
    /\ loaded' = LoadSeen
    /\ called' = {} /\ wrote' = {} /\ mdDone' = {}
    /\ failedText' = {} /\ marked' = {} /\ attempted' = {}
    /\ UNCHANGED <<pureVars, confVars, diskVars, run, entryVars, callVars, everCreated>>

\* ---------------------------------------------------------- the loop head
InLoop == pc = "loop" /\ idx <= Len(feed)

\* the test of the cap off by one
CapReachedLate == created > cap

\* if created >= MAX_NEW_POSTS
CapReached == created >= cap

\* the test of the SeenSet left out
AlreadySeenNever(eid) == FALSE

\* if eid in seen
AlreadySeen(eid) == eid \in seen

\* the for loop is over, or line 362-363: break
LoopExit ==
    /\ pc = "loop"
    /\ idx > Len(feed) \/ CapReached
    /\ pc' = "save"
    /\ UNCHANGED <<pureVars, confVars, diskVars, run, seen, seenMike, created, checked, idx,
                   entryVars, callVars, histVars, everCreated>>

\* lines 365-368: continue
SkipNoId ==
    /\ InLoop /\ ~CapReached
    /\ EidOf(feed[idx]) = ""
    /\ idx' = idx + 1
    /\ UNCHANGED <<pureVars, confVars, diskVars, run, pc, seen, seenMike, created, checked,
                   entryVars, callVars, histVars, everCreated>>

\* lines 369-371: continue
SkipSeen ==
    /\ InLoop /\ ~CapReached
    /\ EidOf(feed[idx]) # ""
    /\ AlreadySeen(EidOf(feed[idx]))
    /\ idx' = idx + 1
    /\ UNCHANGED <<pureVars, confVars, diskVars, run, pc, seen, seenMike, created, checked,
                   entryVars, callVars, histVars, everCreated>>

\* a call of post_openai begins
StartCall(who) ==
    /\ caller' = who
    /\ attempt' = 1
    /\ poResult' = "none"
    /\ hist' = <<>> /\ sleeps' = 0 /\ reqs' = 0
    /\ pc' = "post_openai"

\* lines 373-390: the entry is new; gen_article_comment_tags calls post_openai
BeginEntry ==
    /\ InLoop /\ ~CapReached
    /\ EidOf(feed[idx]) # ""
    /\ ~AlreadySeen(EidOf(feed[idx]))
    /\ checked' = checked + 1
    /\ attempted' = attempted \cup {idx}
    /\ StartCall("text")
    /\ UNCHANGED <<pureVars, confVars, diskVars, run, seen, seenMike, created, idx,
                   entryVars, loaded, called, wrote, mdDone, failedText, marked,
                   everCreated>>

\* ------------------------------------------------------------ post_openai
\* an error status other than 401 and 429 taken for a rate limit
OutcomeHttpRetried(r) ==
    CASE r = "rate429" -> "sleep"
      [] r = "quota429" -> "fatal_quota"
      [] r = "e401" -> "fatal_auth"
      [] r = "http_error" -> "sleep"
      [] r = "ok" -> "ok"

\* a 429 that refuses for quota taken for a rate limit
OutcomeQuotaRetried(r) ==
    CASE r = "rate429" -> "sleep"
      [] r = "quota429" -> "sleep"
      [] r = "e401" -> "fatal_auth"
      [] r = "http_error" -> "http_error"
      [] r = "ok" -> "ok"

\* lines 120-153: what one response makes of the attempt: "sleep" (a 429 that
\* is not a quota refusal), an exception raised, or the response returned
Outcome(r) ==
    CASE r = "rate429" -> "sleep"
      [] r = "quota429" -> "fatal_quota"
      [] r = "e401" -> "fatal_auth"
      [] r = "http_error" -> "http_error"
      [] r = "ok" -> "ok"

\* the loop's range one attempt too long
MoreAttemptsOneMore(a) == a <= MaxAttempts

\* for attempt in range(1, max_attempts + 1): another attempt follows this one
MoreAttempts(a) == a < MaxAttempts

\* line 119 and the classification of its response
PoRequest ==
    /\ pc = "post_openai"
    /\ \E r \in Responses :
        /\ hist' = Append(hist, r)
        /\ reqs' = reqs + 1
        /\ IF Outcome(r) = "sleep"
           THEN pc' = "sleep" /\ poResult' = poResult
           ELSE pc' = "returned" /\ poResult' = Outcome(r)
    /\ called' = called \cup {idx}
    /\ UNCHANGED <<pureVars, confVars, diskVars, run, seen, seenMike, created, checked, idx,
                   entryVars, caller, attempt, sleeps, loaded, wrote, mdDone,
                   failedText, marked, attempted, everCreated>>

\* lines 138-141: time.sleep(wait); continue, and line 154 when the loop is over
PoSleep ==
    /\ pc = "sleep"
    /\ sleeps' = sleeps + 1
    /\ IF MoreAttempts(attempt)
       THEN attempt' = attempt + 1 /\ pc' = "post_openai" /\ poResult' = poResult
       ELSE attempt' = attempt /\ pc' = "returned" /\ poResult' = "fatal_retries"
    /\ UNCHANGED <<pureVars, confVars, diskVars, run, seen, seenMike, created, checked, idx,
                   entryVars, caller, hist, reqs, histVars, everCreated>>

ResetCall ==
    /\ caller' = "none" /\ attempt' = 1 /\ poResult' = "none"
    /\ hist' = <<>> /\ sleeps' = 0 /\ reqs' = 0

ResetEntry ==
    /\ article' = "none" /\ mike' = NonePick /\ hasImage' = FALSE /\ imgFile' = "none"
    /\ imgErr' = "none" /\ doc' = NoDoc

\* the fatal error caught by the entry's handler like any other exception
FatalCaught ==
    /\ pc = "returned"
    /\ poResult \in Fatal
    /\ idx' = idx + 1 /\ pc' = "loop"
    /\ ResetCall /\ ResetEntry
    /\ UNCHANGED <<pureVars, confVars, diskVars, run, seen, seenMike, created, checked,
                   histVars, everCreated>>

\* SystemExit is not an Exception: neither try block catches it, main() ends
\* at the raise and lines 432-433 do not run
FatalExit ==
    /\ pc = "returned"
    /\ poResult \in Fatal
    /\ pc' = "aborted"
    /\ UNCHANGED <<pureVars, confVars, diskVars, run, seen, seenMike, created, checked, idx,
                   entryVars, callVars, histVars, everCreated>>

\* ------------------------------------------------------- the entry's steps
\* lines 421-430: the entry's exception is caught; continue
NextEntry ==
    /\ idx' = idx + 1
    /\ pc' = "loop"
    /\ ResetCall
    /\ ResetEntry

\* post_openai raised requests.HTTPError in gen_article_comment_tags
TextHttpError ==
    /\ pc = "returned" /\ caller = "text" /\ poResult = "http_error"
    /\ NextEntry
    /\ failedText' = failedText \cup {idx}
    /\ UNCHANGED <<pureVars, confVars, diskVars, run, seen, seenMike, created, checked,
                   loaded, called, wrote, mdDone, marked, attempted, everCreated>>

\* the entry whose response does not parse recorded as done all the same
ParseFailMarksSeen ==
    /\ pc = "returned" /\ caller = "text" /\ poResult = "ok"
    /\ NextEntry
    /\ seen' = seen \cup {EidOf(feed[idx])}
    /\ failedText' = failedText \cup {idx}
    /\ UNCHANGED <<pureVars, confVars, diskVars, run, seenMike, created, checked,
                   loaded, called, wrote, mdDone, marked, attempted, everCreated>>

\* line 250-252: r.json(), the indexing, parse_json_strict_or_slice or obj.get
\* raises
ParseFail ==
    /\ pc = "returned" /\ caller = "text" /\ poResult = "ok"
    /\ NextEntry
    /\ failedText' = failedText \cup {idx}
    /\ UNCHANGED <<pureVars, confVars, diskVars, run, seen, seenMike, created, checked,
                   loaded, called, wrote, mdDone, marked, attempted, everCreated>>

\* lines 250-287 and 393-396: the payload parses; then the image unless skipped
ParseOk ==
    /\ pc = "returned" /\ caller = "text" /\ poResult = "ok"
    /\ \E obj \in Payloads :
        /\ article' = obj.article
        /\ mike' = GenPick(obj.cands, seenMike)
    /\ hasImage' = FALSE /\ imgFile' = "none"
    /\ imgErr' = "none" /\ doc' = NoDoc
    /\ IF skipImage
       THEN pc' = "write" /\ ResetCall
       ELSE StartCall("image")
    /\ UNCHANGED <<pureVars, confVars, diskVars, run, seen, seenMike, created, checked, idx,
                   histVars, everCreated>>

\* the image's HTTP error taken by the entry's handler instead of the image's
ImageHttpErrorSkipsEntry ==
    /\ pc = "returned" /\ caller = "image" /\ poResult = "http_error"
    /\ NextEntry
    /\ UNCHANGED <<pureVars, confVars, diskVars, run, seen, seenMike, created, checked,
                   histVars, everCreated>>

\* lines 400-401: post_openai raised requests.HTTPError in gen_image_png
ImageHttpError ==
    /\ pc = "returned" /\ caller = "image" /\ poResult = "http_error"
    /\ imgErr' = "http"
    /\ pc' = "write"
    /\ ResetCall
    /\ UNCHANGED <<pureVars, confVars, diskVars, run, seen, seenMike, created, checked, idx,
                   article, mike, hasImage, imgFile, doc, histVars, everCreated>>

\* lines 302-309, 400-401: no image data, or the image's URL cannot be fetched
ImageNoData ==
    /\ pc = "returned" /\ caller = "image" /\ poResult = "ok"
    /\ imgErr' = "nodata"
    /\ pc' = "write"
    /\ ResetCall
    /\ UNCHANGED <<pureVars, confVars, diskVars, run, seen, seenMike, created, checked, idx,
                   article, mike, hasImage, imgFile, doc, histVars, everCreated>>

\* lines 397-398, 400-401: writing featured.png raises
ImageWriteFail ==
    /\ pc = "returned" /\ caller = "image" /\ poResult = "ok"
    /\ imgFile' = "partial"
    /\ imgErr' = "write"
    /\ wrote' = wrote \cup {idx}
    /\ pc' = "write"
    /\ ResetCall
    /\ UNCHANGED <<pureVars, confVars, diskVars, run, seen, seenMike, created, checked, idx,
                   article, mike, hasImage, doc, loaded, called, mdDone, failedText,
                   marked, attempted, everCreated>>

\* lines 396-399
ImageWriteOk ==
    /\ pc = "returned" /\ caller = "image" /\ poResult = "ok"
    /\ imgFile' = "full"
    /\ wrote' = wrote \cup {idx}
    /\ hasImage' = TRUE
    /\ pc' = "write"
    /\ ResetCall
    /\ UNCHANGED <<pureVars, confVars, diskVars, run, seen, seenMike, created, checked, idx,
                   article, mike, imgErr, doc, loaded, called, mdDone, failedText,
                   marked, attempted, everCreated>>

\* lines 404-410: index.md is written
WriteMdOk ==
    /\ pc = "write"
    /\ posts' = [posts EXCEPT ![feed[idx].dir] = "full"]
    /\ doc' = Document(hasImage, article)
    /\ wrote' = wrote \cup {idx}
    /\ mdDone' = mdDone \cup {idx}
    /\ pc' = "mark"
    /\ UNCHANGED <<pureVars, confVars, diskSeen, diskMike, run, seen, seenMike, created,
                   checked, idx, article, mike, hasImage, imgFile, imgErr, callVars, loaded, called, failedText,
                   marked, attempted, everCreated>>

\* the failed write of index.md swallowed: the entry goes on to be marked seen
WriteMdFailSwallowed ==
    /\ pc = "write"
    /\ posts' = [posts EXCEPT ![feed[idx].dir] = "partial"]
    /\ wrote' = wrote \cup {idx}
    /\ pc' = "mark"
    /\ UNCHANGED <<pureVars, confVars, diskSeen, diskMike, run, seen, seenMike, created,
                   checked, idx, entryVars, callVars, loaded, called, mdDone,
                   failedText, marked, attempted, everCreated>>

\* lines 409-410 raise (the file is opened, truncated, and not completed),
\* lines 428-430 catch
WriteMdFail ==
    /\ pc = "write"
    /\ posts' = [posts EXCEPT ![feed[idx].dir] = "partial"]
    /\ wrote' = wrote \cup {idx}
    /\ NextEntry
    /\ UNCHANGED <<pureVars, confVars, diskSeen, diskMike, run, seen, seenMike, created,
                   checked, loaded, called, mdDone, failedText, marked, attempted,
                   everCreated>>

\* seen_mike_normed after lines 414-415
AddMike(s, m) == IF m.norm # <<>> /\ m.norm[1] # <<>> THEN s \cup {m.norm[1]} ELSE s

\* lines 413-419
MarkSeen ==
    /\ pc = "mark"
    /\ seen' = seen \cup {EidOf(feed[idx])}
    /\ seenMike' = AddMike(seenMike, mike)
    /\ created' = created + 1
    /\ marked' = marked \cup {idx}
    /\ NextEntry
    /\ UNCHANGED <<pureVars, confVars, diskVars, run, checked, loaded, called, wrote,
                   mdDone, failedText, attempted, everCreated>>

\* lines 432-435
SaveState ==
    /\ pc = "save"
    /\ diskSeen' = SaveSeen(seen)
    /\ diskMike' = SaveSeenMike(seenMike)
    /\ pc' = "done"
    /\ UNCHANGED <<pureVars, confVars, posts, run, seen, seenMike, created, checked,
                   idx, entryVars, callVars, histVars, everCreated>>

\* the script is run again
NextRun ==
    /\ pc \in {"done", "aborted"}
    /\ run < MaxRuns
    /\ run' = run + 1
    /\ pc' = "start"
    /\ seen' = {} /\ seenMike' = {} /\ created' = 0 /\ checked' = 0 /\ idx' = 1
    /\ ResetCall
    /\ ResetEntry
    /\ loaded' = {} /\ called' = {} /\ wrote' = {} /\ mdDone' = {}
    /\ failedText' = {} /\ marked' = {} /\ attempted' = {}
    /\ everCreated' = IF pc = "done" THEN everCreated \cup KeysOf(marked)
                      ELSE everCreated
    /\ UNCHANGED <<pureVars, confVars, diskVars>>

Next ==
    \/ LoadState
    \/ LoopExit
    \/ SkipNoId
    \/ SkipSeen
    \/ BeginEntry
    \/ PoRequest
    \/ PoSleep
    \/ FatalExit
    \/ TextHttpError
    \/ ParseFail
    \/ ParseOk
    \/ ImageHttpError
    \/ ImageNoData
    \/ ImageWriteFail
    \/ ImageWriteOk
    \/ WriteMdOk
    \/ WriteMdFail
    \/ MarkSeen
    \/ SaveState
    \/ NextRun

Spec == Init /\ [][Next]_vars

\* ------------------------------------- feeds with entries that share a title
\* build_dirname makes the directory from the title and the date alone: two
\* entries with different ids and links, the same title and the same date
DirPool ==
    { Entry("a", "la", "d1"),
      Entry("c", "lc", "d1"),
      Entry("", "", "d3") }

InitDirs ==
    /\ PureIdle
    /\ feed \in SeqsUpTo(DirPool, MaxFeed)
    /\ cap \in 0..MaxCap
    /\ skipImage \in BOOLEAN
    /\ diskSeen = {}
    /\ diskMike = {}
    /\ posts = [d \in Dirs |-> "none"]
    /\ run = 1
    /\ pc = "start"
    /\ seen = {} /\ seenMike = {} /\ created = 0 /\ checked = 0 /\ idx = 1
    /\ caller = "none" /\ attempt = 1 /\ poResult = "none"
    /\ article = "none" /\ mike = NonePick /\ hasImage = FALSE /\ imgFile = "none"
    /\ imgErr = "none" /\ doc = NoDoc
    /\ hist = <<>> /\ sleeps = 0 /\ reqs = 0
    /\ loaded = {} /\ called = {} /\ wrote = {} /\ mdDone = {}
    /\ failedText = {} /\ marked = {} /\ attempted = {}
    /\ everCreated = {}

SpecDirs == InitDirs /\ [][Next]_vars

\* --------------------------------------------------- _norm_mike on its own
\* the characters _norm_mike takes out
Stripped == WhiteSpace \cup NormPunct

NormAlphabet == {"a", SP, ZSP, KUTEN, DOT, LQUOTE}

InitNorm ==
    /\ MainIdle
    /\ normS \in SeqsUpTo(NormAlphabet, MaxLen)
    /\ normT = normS
    /\ normOut = <<>>
    /\ selCands = <<>> /\ selSeen = {} /\ selOut = <<>>
    /\ ParseIdle /\ KeepIdle /\ WaitIdle

\* a whitespace or stripped character is put into normT
NormInsert ==
    /\ normOut = <<>>
    /\ Len(normT) < MaxLen
    /\ \E k \in 0..Len(normT), c \in Stripped :
        normT' = SubSeq(normT, 1, k) \o <<c>> \o SubSeq(normT, k + 1, Len(normT))
    /\ UNCHANGED <<normS, normOut, selVars, otherPure, confVars, diskVars, run, mainVars,
                   entryVars, callVars, histVars, everCreated>>

\* a whitespace or stripped character is taken out of normT
NormDelete ==
    /\ normOut = <<>>
    /\ \E k \in 1..Len(normT) :
        /\ normT[k] \in Stripped
        /\ normT' = SubSeq(normT, 1, k - 1) \o SubSeq(normT, k + 1, Len(normT))
    /\ UNCHANGED <<normS, normOut, selVars, otherPure, confVars, diskVars, run, mainVars,
                   entryVars, callVars, histVars, everCreated>>

\* _norm_mike is applied to normS, to normT, and to its own result
NormApply ==
    /\ normOut = <<>>
    /\ normOut' = << [ofS |-> NormMike(normS),
                      ofT |-> NormMike(normT),
                      twice |-> NormMike(NormMike(normT))] >>
    /\ UNCHANGED <<normS, normT, selVars, otherPure, confVars, diskVars, run, mainVars,
                   entryVars, callVars, histVars, everCreated>>

NextNorm ==
    \/ NormInsert
    \/ NormDelete
    \/ NormApply

SpecNorm == InitNorm /\ [][NextNorm]_vars

\* ------------------------------------------------ the selection on its own
\* c * n
Rep(c, n) == [i \in 1..n |-> c]

\* a line of 121 characters that ends with the marker
LongLine == Rep("a", MaxMikeLen - 1) \o Marker

CandPool ==
    { Cand(TRUE, <<"a", NI, YA>>),
      Cand(TRUE, <<ZSP, "a", SP, SP, LQUOTE, NI, YA, SP>>),
      Cand(TRUE, <<"b", KUTEN>>),
      Cand(TRUE, <<SP>>),
      Cand(FALSE, <<"7">>),
      Cand(TRUE, LongLine) }

FpPool == { <<"a", NI, YA>>, <<"b", NI, YA>>, NormMike(LongLine) }

InitSel ==
    /\ MainIdle
    /\ normS = <<>> /\ normT = <<>> /\ normOut = <<>>
    /\ selCands \in SeqsUpTo(CandPool, MaxCands)
    /\ selSeen \in SUBSET FpPool
    /\ selOut = <<>>
    /\ ParseIdle /\ KeepIdle /\ WaitIdle

\* lines 255-287 on selCands and selSeen
SelectMike ==
    /\ selOut = <<>>
    /\ selOut' = <<GenPick(selCands, selSeen)>>
    /\ UNCHANGED <<selCands, selSeen, normVars, otherPure, confVars, diskVars, run, mainVars,
                   entryVars, callVars, histVars, everCreated>>

NextSel == SelectMike

SpecSel == InitSel /\ [][NextSel]_vars

\* --------------------------------------- parse_json_strict_or_slice on its own
MaxText == 6

\* The characters of a model response.  KEY stands for a member's name with
\* its colon, "k": ; NULL for the literal null; WORD for a letter of prose.
\* U+0020 is whitespace for str.strip and for the JSON grammar, U+3000 for
\* str.strip only.
LB == "LB"
RB == "RB"
KEY == "KEY"
NULL == "NULL"
WORD == "w"
JsonWs == {SP}
TextAlphabet == {LB, RB, KEY, NULL, WORD, SP, ZSP}

\* what json.loads returns: None, or a dict with no or one member
JsonNull == [type |-> "null", members |-> <<>>]
JsonObject(members) == [type |-> "object", members |-> members]

RECURSIVE JsonValue(_)
\* the JSON value of the tokens t, None when they are not a JSON text: a value
\* is null, {} or an object with one member, whose value is a value
JsonValue(t) ==
    IF t = <<NULL>> THEN <<JsonNull>>
    ELSE IF t = <<LB, RB>> THEN <<JsonObject(<<>>)>>
    ELSE IF Len(t) >= 4 /\ t[1] = LB /\ t[2] = KEY /\ t[Len(t)] = RB
         THEN LET inner == JsonValue(SubSeq(t, 3, Len(t) - 1)) IN
              IF inner = <<>> THEN <<>> ELSE <<JsonObject(<<inner[1]>>)>>
         ELSE <<>>

\* json.loads(s): whitespace of the JSON grammar may stand around every token;
\* None when json.loads raises
JsonLoads(s) == JsonValue(Without(s, JsonWs))

Returned(v) == [raised |-> FALSE, val |-> <<v>>]
Raised == [raised |-> TRUE, val |-> <<>>]

\* text.find("{"): the index from 1, 0 for -1
Find(t, c) ==
    IF \E i \in 1..Len(t) : t[i] = c
    THEN CHOOSE i \in 1..Len(t) : t[i] = c /\ \A j \in 1..(i - 1) : t[j] # c
    ELSE 0

\* text.rfind("}"): the index from 1, 0 for -1
RFind(t, c) ==
    IF \E i \in 1..Len(t) : t[i] = c
    THEN CHOOSE i \in 1..Len(t) : t[i] = c /\ \A j \in (i + 1)..Len(t) : t[j] # c
    ELSE 0

\* the function without its except branch
ParseJsonStrictOnly(text) ==
    LET t == Strip(text)
        strict == JsonLoads(t)
    IN IF strict # <<>> THEN Returned(strict[1]) ELSE Raised

\* def parse_json_strict_or_slice(text)
ParseJsonStrictOrSlice(text) ==
    LET t == Strip(text)
        strict == JsonLoads(t)
        start == Find(t, LB)
        end == RFind(t, RB)
    IN IF strict # <<>> THEN Returned(strict[1])
       ELSE IF start # 0 /\ end # 0 /\ end > start
            THEN LET sliced == JsonLoads(SubSeq(t, start, end)) IN
                 IF sliced # <<>> THEN Returned(sliced[1]) ELSE Raised
            ELSE Raised

InitParse ==
    /\ MainIdle
    /\ normS = <<>> /\ normT = <<>> /\ normOut = <<>>
    /\ selCands = <<>> /\ selSeen = {} /\ selOut = <<>>
    /\ KeepIdle /\ WaitIdle
    /\ jsText \in SeqsUpTo(TextAlphabet, MaxText)
    /\ jsOut = <<>>

\* parse_json_strict_or_slice is applied to jsText
ParseApply ==
    /\ jsOut = <<>>
    /\ jsOut' = <<ParseJsonStrictOrSlice(jsText)>>
    /\ UNCHANGED <<jsText, normVars, selVars, keepVars, waitVars, confVars, diskVars,
                   run, mainVars, entryVars, callVars, histVars, everCreated>>

NextParse == ParseApply

SpecParse == InitParse /\ [][NextParse]_vars

\* ------------------------------------------------- save_seen_mike on its own
MaxFps == 4
MaxKeep == 2

\* the fingerprints, by name
Fps == 1..MaxFps

\* list(seen): a Python set has no order of insertion; the list has the
\* elements of the set in the order of their hashes, which for strings changes
\* from one process to the next.  Every order is one the build can produce.
ListsOf(S) ==
    { arr \in [1..Cardinality(S) -> S] : \A i, j \in 1..Cardinality(S) :
                                            arr[i] = arr[j] => i = j }

\* if len(arr) > keep_last: arr = arr[-keep_last:]
KeepLast(arr, keep_last) ==
    IF Len(arr) > keep_last
    THEN SubSeq(arr, Len(arr) - keep_last + 1, Len(arr))
    ELSE arr

InitKeep ==
    /\ MainIdle
    /\ normS = <<>> /\ normT = <<>> /\ normOut = <<>>
    /\ selCands = <<>> /\ selSeen = {} /\ selOut = <<>>
    /\ ParseIdle /\ WaitIdle
    /\ mikeOld \in SUBSET Fps
    /\ mikeNew = {}
    /\ keepLast \in 1..MaxKeep
    /\ mikeSaved = <<>>

\* lines 414-415: the run accepts a line whose fingerprint is not in the set
MikeAccept ==
    /\ mikeSaved = <<>>
    /\ \E f \in Fps \ (mikeOld \cup mikeNew) : mikeNew' = mikeNew \cup {f}
    /\ UNCHANGED <<mikeOld, keepLast, mikeSaved, normVars, selVars, parseVars, waitVars,
                   confVars, diskVars, run, mainVars, entryVars, callVars, histVars,
                   everCreated>>

\* save_seen_mike(seen_mike_normed, keep_last)
MikeSave ==
    /\ mikeSaved = <<>>
    /\ \E arr \in ListsOf(mikeOld \cup mikeNew) :
           mikeSaved' = <<KeepLast(arr, keepLast)>>
    /\ UNCHANGED <<mikeOld, mikeNew, keepLast, normVars, selVars, parseVars, waitVars,
                   confVars, diskVars, run, mainVars, entryVars, callVars, histVars,
                   everCreated>>

NextKeep ==
    \/ MikeAccept
    \/ MikeSave

SpecKeep == InitKeep /\ [][NextKeep]_vars

\* ------------------------------------------- post_openai's wait on its own
MaxHdr == 3

\* the characters of a retry-after header: a sign, digits, and a character
\* that is neither (as in an HTTP date)
MINUS == "-"
Digits == {"0", "1", "3", "5", "6", "9"}
HdrAlphabet == {MINUS, "0", "1", "5", "6", "9", "x"}

DigitVal(c) ==
    CASE c = "0" -> 0 [] c = "1" -> 1 [] c = "3" -> 3
      [] c = "5" -> 5 [] c = "6" -> 6 [] c = "9" -> 9

RECURSIVE Decimal(_)
\* the number a string of digits writes
Decimal(ds) ==
    IF ds = <<>> THEN 0
    ELSE 10 * Decimal(SubSeq(ds, 1, Len(ds) - 1)) + DigitVal(ds[Len(ds)])

\* int(text): None when it raises ValueError, else the number: an optional
\* sign and at least one digit
IntOf(text) ==
    LET ds == IF text # <<>> /\ text[1] = MINUS THEN Tail(text) ELSE text IN
    IF ds # <<>> /\ \A i \in 1..Len(ds) : ds[i] \in Digits
    THEN <<(IF text[1] = MINUS THEN -1 ELSE 1) * Decimal(ds)>>
    ELSE <<>>

\* r.headers.get("retry-after", "30")
HeaderGet(h) == IF h = <<>> THEN <<"3", "0">> ELSE h[1]

Min(a, b) == IF a < b THEN a ELSE b
Max(a, b) == IF a > b THEN a ELSE b

\* lines 133-137: retry_after
RetryAfter(h) ==
    LET n == IntOf(HeaderGet(h)) IN IF n = <<>> THEN 30 ELSE n[1]

\* the wait without its lower bound
WaitNoFloor(h) == Min(RetryAfter(h), 60)

\* line 138: wait = max(10, min(retry_after, 60))
Wait(h) == Max(10, Min(RetryAfter(h), 60))

InitWait ==
    /\ MainIdle
    /\ normS = <<>> /\ normT = <<>> /\ normOut = <<>>
    /\ selCands = <<>> /\ selSeen = {} /\ selOut = <<>>
    /\ ParseIdle /\ KeepIdle
    /\ hdr \in {<<>>} \cup { <<t>> : t \in SeqsUpTo(HdrAlphabet, MaxHdr) }
    /\ waitOut = <<>>

\* lines 133-138 on the header hdr
ComputeWait ==
    /\ waitOut = <<>>
    /\ waitOut' = <<Wait(hdr)>>
    /\ UNCHANGED <<hdr, normVars, selVars, parseVars, keepVars, confVars, diskVars,
                   run, mainVars, entryVars, callVars, histVars, everCreated>>

NextWait == ComputeWait

SpecWait == InitWait /\ [][NextWait]_vars

\* ================================================================== claims
\* C1: in every run, an entry whose key (id, else link) is in the SeenSet
\* loaded at the start of the run gets no upstream request, text or image,
\* and no file of a package is written for it.
C1_SeenEntryUntouched ==
    \A i \in called \cup wrote : EidOf(feed[i]) \notin loaded

\* a second run has ended in which one entry of the feed was loaded as seen
\* and another was sent upstream
C1_Witness ==
    /\ pc = "done" /\ run = 2
    /\ \E i \in 1..Len(feed) : EidOf(feed[i]) \in loaded
    /\ called # {}

\* C2: a key is in main's seen only if it was loaded at the start of the run
\* or the index.md of an entry with that key was written completely earlier in
\* the run; the entry that is about to be marked seen has its index.md written
\* and no image step pending.
C2_SeenOnlyAfterWrite ==
    /\ \A k \in seen : k \in loaded \/ k \in KeysOf(mdDone)
    /\ marked \subseteq mdDone
    /\ pc = "mark" => idx \in mdDone /\ caller = "none"

\* one entry was marked seen after its write, another's write of index.md
\* failed and its key is not in seen
C2_Witness ==
    /\ pc = "loop"
    /\ \E i \in marked : EidOf(feed[i]) \notin loaded
    /\ \E j \in wrote \ mdDone : EidOf(feed[j]) \notin seen

\* C3: for every cap MAX_NEW_POSTS >= 0 the created counter never exceeds
\* the cap.
C3_CreatedWithinCap == created <= cap

\* the run ended on the cap with a new entry of the feed left unprocessed
C3_Witness ==
    /\ pc = "done"
    /\ cap >= 1 /\ created = cap
    /\ idx <= Len(feed)
    /\ EidOf(feed[idx]) \notin seen \cup {""}

\* the number of 429 rate-limit responses in the responses h
RateCount(h) == Cardinality({ i \in 1..Len(h) : h[i] = "rate429" })

InCall == pc \in {"post_openai", "sleep"}

C6_Bounded ==
    /\ reqs = Len(hist)
    /\ reqs <= MaxAttempts /\ sleeps <= MaxAttempts
    /\ \A i \in 1..(Len(hist) - 1) : hist[i] = "rate429"
    /\ pc = "returned" /\ RateCount(hist) = MaxAttempts => poResult = "fatal_retries"
    /\ pc = "returned" /\ poResult = "fatal_retries" => RateCount(hist) = MaxAttempts
    /\ InCall => ENABLED (PoRequest \/ PoSleep)

\* a step inside a call is one more request or one more sleep
C6_Progress ==
    InCall => /\ pc' \in {"post_openai", "sleep", "returned"}
              /\ reqs' + sleeps' = reqs + sleeps + 1

\* C6: every call of post_openai ends, having issued at most max_attempts
\* requests: a call in progress can always take its next step, every step of
\* it is one more request or sleep, and there are at most max_attempts of
\* each; max_attempts rate-limit 429s in a row end it with the fatal
\* retries-exhausted error; every response before the last is a rate-limit
\* 429, so no request follows a success, a quota 429 or another error.
C6_CallTerminates == []C6_Bounded /\ [][C6_Progress]_vars

\* a call ended with the retries-exhausted error after max_attempts requests
C6_Witness ==
    pc = "returned" /\ poResult = "fatal_retries" /\ reqs = MaxAttempts

\* a later entry j is attempted, subject to the cap: it reached the try block,
\* or the loop passed it over as id-less or already seen, or the cap is reached
Passed(j) ==
    \/ j \in attempted
    \/ EidOf(feed[j]) = ""
    \/ EidOf(feed[j]) \in seen
    \/ created >= cap

RunEnded == pc \in {"done", "aborted"}

\* the step in which the entry's text generation or parsing fails recoverably
\* leaves seen, the fingerprints and created alone and moves on to the next
\* entry
C4_FailStep ==
    (pc = "returned" /\ caller = "text" /\ pc' = "loop")
        => /\ seen' = seen /\ seenMike' = seenMike /\ created' = created
           /\ idx' = idx + 1
           /\ failedText' = failedText \cup {idx}

\* at the end of the run the key of every entry whose text generation or
\* parsing failed recoverably is not in the persisted SeenSet unless it was
\* loaded, and every entry after it in the feed was attempted (subject to the
\* cap)
C4_OrigEnd ==
    RunEnded =>
        \A i \in failedText :
            /\ EidOf(feed[i]) \notin loaded => EidOf(feed[i]) \notin diskSeen
            /\ \A j \in (i + 1)..Len(feed) : Passed(j)

\* C4 as it is written: the failing step changes neither seen, nor the
\* fingerprints, nor created, and at the end of the run X is absent from the
\* persisted SeenSet and every later entry was attempted (subject to the cap)
C4_AsWritten == []C4_OrigEnd /\ [][C4_FailStep]_vars

C4_End ==
    RunEnded =>
        \A i \in failedText :
            /\ EidOf(feed[i]) \in diskSeen =>
                   \/ EidOf(feed[i]) \in loaded
                   \/ \E j \in marked : j > i /\ EidOf(feed[j]) = EidOf(feed[i])
            /\ \A j \in (i + 1)..(IF pc = "aborted" THEN idx ELSE Len(feed)) :
                   Passed(j)

\* C4 (amended): a recoverable failure of text generation or parsing for
\* entry X adds no key to seen, no fingerprint, nothing to created, and the
\* loop goes on with the next entry; at the end of the run X's key is in the
\* persisted SeenSet only if it was loaded or a later entry with the same key
\* was processed successfully, and every entry after X up to the end of the
\* run (the end of the feed, or the entry at which a fatal error ended the
\* run) was attempted, subject to the cap.
C4_FailureSkipsEntry == []C4_End /\ [][C4_FailStep]_vars

\* the run ended normally after an entry failed recoverably and a later entry
\* was created
C4_Witness ==
    /\ pc = "done"
    /\ \E i \in failedText : /\ EidOf(feed[i]) \notin diskSeen
                             /\ \E j \in marked : j > i

\* C5 as it is written: a quota 429 ends the call with the fatal
\* quota error and no sleep for it; every rate-limit 429 is slept on once and
\* followed by a retry, so a call that has ended has issued one request more
\* than it received rate-limit 429s; the two sequences of the claim
C5_AsWritten ==
    /\ pc = "returned" /\ hist # <<>> /\ hist[Len(hist)] = "quota429"
           => poResult = "fatal_quota" /\ sleeps = RateCount(hist)
    /\ pc = "post_openai" => sleeps = RateCount(hist)
    /\ pc = "sleep" => sleeps = RateCount(hist) - 1
    /\ pc = "returned" => sleeps = RateCount(hist) /\ reqs = RateCount(hist) + 1
    /\ pc = "returned" /\ hist = <<"rate429", "rate429", "ok">>
           => poResult = "ok" /\ sleeps = 2 /\ reqs = 3
    /\ pc = "returned" /\ hist = <<"quota429">>
           => poResult = "fatal_quota" /\ sleeps = 0 /\ reqs = 1

\* C5 (amended): a quota 429 ends the call with the fatal quota error, with
\* no sleep for it and no further request; every rate-limit 429 is slept on
\* exactly once, and a retry follows unless it was the max_attempts-th
\* request, after which the fatal retries-exhausted error follows the sleep;
\* [429-rate, 429-rate, 200] returns the 200 after two sleeps and three
\* requests, [429-quota] raises the quota error after one request, no sleep.
C5_RetryPolicy ==
    /\ pc = "returned" /\ hist # <<>> /\ hist[Len(hist)] = "quota429"
           => poResult = "fatal_quota" /\ sleeps = RateCount(hist)
    /\ pc = "post_openai" => sleeps = RateCount(hist)
    /\ pc = "sleep" => sleeps = RateCount(hist) - 1
    /\ pc = "returned" =>
           /\ sleeps = RateCount(hist)
           /\ \/ reqs = RateCount(hist) + 1
              \/ poResult = "fatal_retries" /\ reqs = MaxAttempts
                     /\ RateCount(hist) = MaxAttempts
    /\ pc = "returned" /\ hist = <<"rate429", "rate429", "ok">>
           => poResult = "ok" /\ sleeps = 2 /\ reqs = 3
    /\ pc = "returned" /\ hist = <<"quota429">>
           => poResult = "fatal_quota" /\ sleeps = 0 /\ reqs = 1

\* the call received 429-rate, 429-rate, 200 and has returned
C5_Witness ==
    pc = "returned" /\ hist = <<"rate429", "rate429", "ok">> /\ sleeps = 2

\* C9: after a run that completes, the keys of the entries it created are in
\* the saved SeenSet; the keys created by earlier completed runs stay in the
\* saved SeenSet, and no later run issues an upstream request, writes a file
\* or creates a package for an entry with such a key.
C9_CreatedOnceAcrossRuns ==
    /\ pc = "done" => KeysOf(marked) \subseteq diskSeen
    /\ everCreated \subseteq diskSeen
    /\ \A i \in called \cup wrote \cup marked : EidOf(feed[i]) \notin everCreated

\* a second run against the feed has ended, an entry of the feed having been
\* created by the first
C9_Witness ==
    /\ run = 2 /\ RunEnded
    /\ \E i \in 1..Len(feed) : EidOf(feed[i]) \in everCreated

\* C10: at the end of every run, however it ends, the persisted SeenSet holds
\* the key of every entry the run processed successfully.
C10_SavedWhateverFails ==
    RunEnded => KeysOf(marked) \subseteq diskSeen

\* the fingerprint the selection compares: _norm_mike of the candidate's line
\* with its whitespace collapsed and the marker enforced
Fingerprint(c) == NormMike(WithMarker(LineOf(c.text)))

\* the canonical form of a candidate: whitespace collapsed, marker enforced,
\* cut to the display length
CanonLine(c) == Truncate(WithMarker(LineOf(c.text)))

\* the candidate is a string with something other than whitespace in it
HasLine(c) == c.isStr /\ LineOf(c.text) # <<>>

FirstOf(S) == CHOOSE i \in S : \A j \in S : i <= j

C8_NormIdempotent ==
    normOut # <<>> =>
        /\ normOut[1].twice = normOut[1].ofT
        /\ normOut[1].ofS = normOut[1].ofT

\* _norm_mike was applied to two different strings, the second with a
\* stripped character the first has not, and took something out of it
C8_Witness ==
    /\ normOut # <<>>
    /\ normT # normS
    /\ normOut[1].ofT # normT
    /\ normOut[1].ofT # <<>>
    /\ \E k \in 1..Len(normT) : normT[k] \in NormPunct

\* the run was ended by a fatal error: the error is the one post_openai raised,
\* nothing was written for the entry it was raised for, and no entry after
\* that one was attempted, sent upstream or written
C11_Aborted ==
    pc = "aborted" =>
        /\ poResult \in Fatal
        /\ idx \notin wrote \cup mdDone \cup marked
        /\ \A j \in attempted \cup called \cup wrote : j <= idx

\* the step that follows a fatal error ends the run and does nothing else; the
\* only step after it is the start of another run of the script
C11_Step ==
    /\ (pc = "returned" /\ poResult \in Fatal)
           => /\ pc' = "aborted"
              /\ UNCHANGED <<diskVars, seen, seenMike, created, idx, reqs, histVars>>
    /\ pc = "aborted"
           => /\ pc' = "start" /\ run' = run + 1
              /\ UNCHANGED diskVars

\* C11: a fatal error of post_openai (401, quota 429, retries exhausted),
\* raised in the text or in the image call of any entry, ends the run at once:
\* no handler of the entry takes it, and after it no request is issued and no
\* file is written for that entry or for any later one.
C11_FatalEndsRun == []C11_Aborted /\ [][C11_Step]_vars

\* a fatal error ended the run after one entry was created, with a new entry
\* of the feed still to come and the cap not reached
C11_Witness ==
    /\ pc = "aborted"
    /\ marked # {}
    /\ created < cap
    /\ idx < Len(feed)
    /\ EidOf(feed[idx + 1]) \notin seen \cup {""}

\* the image step of the entry failed: its call of post_openai ended otherwise
\* than with a response, or no image came of the response
ImageFailed == imgErr # "none"

\* the cover reference of the header goes with the image file, and a failed
\* image step leaves the entry without one; the document that has just been
\* written is the one built from has_image and article_md
C12_Cover ==
    /\ hasImage <=> imgFile = "full"
    /\ ImageFailed => ~hasImage /\ pc \in {"write", "mark"} /\ article # "none"
    /\ pc = "mark" => /\ doc = Document(hasImage, article)
                      /\ doc.cover <=> imgFile = "full"
                      /\ idx \in mdDone

\* after the document is written the entry is marked seen and counted
C12_MarkStep ==
    pc = "mark" => /\ seen' = seen \cup {EidOf(feed[idx])}
                   /\ created' = created + 1
                   /\ marked' = marked \cup {idx}

\* an image call that ends without an image, whatever the upstream answered,
\* is followed by the write of the document, and that write by the marking
C12_OrigStep ==
    /\ (pc = "returned" /\ caller = "image" /\ ~hasImage')
           => pc' = "write" /\ idx' = idx
    /\ (pc = "write" /\ ImageFailed) => pc' = "mark"
    /\ C12_MarkStep

\* C12 as it is written: whenever the image step fails after the text
\* succeeded, the document is still written with no cover reference and the
\* entry is marked seen and counted; the header has the cover reference
\* exactly when the image file was written
C12_AsWritten == []C12_Cover /\ [][C12_OrigStep]_vars

\* an image call that ends without a fatal error is followed by the write of
\* the document, with has_image set exactly when the image file was written;
\* the document written is built from has_image; the marking follows it
C12_Step ==
    /\ (pc = "returned" /\ caller = "image" /\ poResult \notin Fatal)
           => /\ pc' = "write" /\ idx' = idx
              /\ hasImage' <=> imgFile' = "full"
              /\ ImageFailed' <=> ~hasImage'
    /\ (pc = "write" /\ pc' = "mark") => doc' = Document(hasImage, article)
    /\ C12_MarkStep

\* C12 (amended): when text generation and parsing succeeded for an entry and
\* the image step fails with a recoverable error (an HTTP error response other
\* than 401 and 429, missing image data, an error writing the image), the run
\* goes on to write the entry's document, whose header has no cover
\* reference, and when that write succeeds the entry is marked seen and
\* counted as created; the header has the cover reference exactly when the
\* image file was written completely.  (A fatal error in the image call ends
\* the run; a failed write of the document leaves the entry unseen.)
C12_ImageFailureNonFatal == []C12_Cover /\ [][C12_Step]_vars

\* the document of an entry whose image request got an HTTP error has been
\* written, without a cover reference, and the entry is about to be marked
C12_Witness ==
    /\ pc = "mark"
    /\ imgErr = "http"
    /\ doc = Document(FALSE, "body")

\* C13: in every run the number of entries for which a text-generation
\* request is issued never exceeds the cap MAX_NEW_POSTS.  (The first request
\* of every entry in called is the one of gen_article_comment_tags.)
C13_RequestsWithinCap == Cardinality(called) <= cap

\* C14: over any runs and any feed no index.md is written more than once: when
\* main() is about to write an entry's index.md there is no complete index.md
\* in the entry's directory, neither of another entry nor of an earlier run.
C14_NeverRewritten == pc = "write" => posts[feed[idx].dir] # "full"

\* the last response of the current call
LastResponse == hist[Len(hist)]

\* a 401 or another error status other than 429 is the last response of its
\* call: the 401 raises the fatal auth error, the other the HTTP error, and
\* only a 429 is slept on
C15_Raised ==
    /\ \A i \in 1..(Len(hist) - 1) : hist[i] \notin {"e401", "http_error"}
    /\ pc = "sleep" => LastResponse = "rate429"
    /\ pc = "returned" /\ LastResponse = "e401" => poResult = "fatal_auth"
    /\ pc = "returned" /\ LastResponse = "http_error" => poResult = "http_error"

\* the request that is answered 401 or with another error status ends the
\* call with no sleep; the auth error ends the run
C15_CallStep ==
    /\ (pc = "post_openai" /\ hist'[Len(hist')] \in {"e401", "http_error"})
           => pc' = "returned" /\ sleeps' = sleeps /\ reqs' = reqs + 1
    /\ (pc = "returned" /\ poResult = "fatal_auth") => pc' = "aborted"

\* the entry has had a call of post_openai end with the HTTP error
HttpFailed == (pc = "returned" /\ poResult = "http_error") \/ imgErr = "http"

\* C15 as it is written: a 401 or another non-429 error status is not
\* retried; the 401 raises the fatal auth error and the run aborts; any other
\* raises the HTTP error, the run continues and the entry it was raised for
\* is not marked seen
C15_AsWritten ==
    /\ []C15_Raised
    /\ [][C15_CallStep /\ (HttpFailed => seen' = seen /\ pc' # "aborted")]_vars

\* what becomes of the HTTP error: raised in text generation, the entry's
\* handler takes it, the entry is not marked and the loop goes on with the
\* next entry; raised in image generation, the image step's handler takes it
\* and the entry goes on to its document without an image
C15_Caught ==
    (pc = "returned" /\ poResult = "http_error") =>
        /\ seen' = seen /\ created' = created
        /\ UNCHANGED diskVars
        /\ caller = "text" => pc' = "loop" /\ idx' = idx + 1 /\ idx \notin marked'
        /\ caller = "image" => pc' = "write" /\ idx' = idx /\ ~hasImage'

\* C15 (amended): a non-success response other than 429 is never retried by
\* post_openai: the request it answers is the last of the call and no sleep
\* follows it; a 401 raises the fatal auth error and the run aborts; any other
\* non-success status raises a recoverable HTTP error, which in text
\* generation the orchestrator catches per entry (entry not marked seen, run
\* continues with the next entry) and in image generation the image step
\* catches (the entry continues without a cover image).
C15_NoRetryOfErrors == []C15_Raised /\ [][C15_CallStep /\ C15_Caught]_vars

\* after one entry was created, the text request of another was answered with
\* an error status other than 401 and 429, and the call has raised
C15_Witness ==
    /\ pc = "returned" /\ caller = "text"
    /\ poResult = "http_error"
    /\ reqs = 1 /\ sleeps = 0
    /\ marked # {}

\* the substring from the first { to the last }, None when there is none
BraceSlice(t) ==
    LET firsts == { i \in 1..Len(t) : t[i] = LB /\ \A j \in 1..(i - 1) : t[j] # LB }
        lasts == { i \in 1..Len(t) : t[i] = RB /\ \A j \in (i + 1)..Len(t) : t[j] # RB }
    IN IF \E i \in firsts, j \in lasts : i < j
       THEN LET i == CHOOSE i \in firsts : TRUE
                j == CHOOSE j \in lasts : TRUE
            IN <<SubSeq(t, i, j)>>
       ELSE <<>>

\* the result is the strict parse of the trimmed text when there is one, else
\* the parse of the brace-bounded substring when there is one, else the error
C16_Stages ==
    jsOut # <<>> =>
        LET t == Strip(jsText)
            strict == JsonLoads(t)
            slice == BraceSlice(t)
            sliced == IF slice = <<>> THEN <<>> ELSE JsonLoads(slice[1])
        IN /\ strict # <<>> => jsOut[1] = Returned(strict[1])
           /\ strict = <<>> /\ sliced # <<>> => jsOut[1] = Returned(sliced[1])
           /\ strict = <<>> /\ sliced = <<>> => jsOut[1] = Raised
           /\ jsOut[1].raised \/ jsOut[1].val \in {strict, sliced} \ {<<>>}

\* the text of an object, from its { to its }
IsObjectText(s) == s # <<>> /\ s[1] = LB /\ s[Len(s)] = RB /\ JsonLoads(s) # <<>>

\* for every way of reading jsText as prose, an object, prose, with the prose
\* before made of the characters preChars and the prose after of postChars,
\* the result is the object
PayloadExtracted(preChars, postChars) ==
    jsOut # <<>> =>
        \A i \in 1..(Len(jsText) + 1), j \in 0..Len(jsText) :
            LET pre == SubSeq(jsText, 1, i - 1)
                mid == SubSeq(jsText, i, j)
                post == SubSeq(jsText, j + 1, Len(jsText))
            IN (/\ i <= j
                /\ IsObjectText(mid)
                /\ \A k \in 1..Len(pre) : pre[k] \in preChars
                /\ \A k \in 1..Len(post) : post[k] \in postChars)
               => jsOut[1] = Returned(JsonLoads(mid)[1])

\* the characters of prose: everything but the member names of JSON
ProseChars == TextAlphabet \ {KEY}

C17_NoEmptyArticle == pc = "mark" => doc.body # "empty"

\* the elements of the list arr
ElementsOf(arr) == { arr[i] : i \in 1..Len(arr) }

\* C18: the list save_seen_mike stores has at most keep_last elements, all of
\* them of the set, and what it drops is the oldest: whenever a fingerprint
\* accepted in the current run is dropped, no fingerprint loaded from the
\* file is kept.
C18_KeepsNewest ==
    mikeSaved # <<>> =>
        /\ Len(mikeSaved[1]) <= keepLast
        /\ ElementsOf(mikeSaved[1]) \subseteq mikeOld \cup mikeNew
        /\ mikeNew \ ElementsOf(mikeSaved[1]) # {}
               => mikeOld \cap ElementsOf(mikeSaved[1]) = {}

\* C19: the wait of a rate-limit 429 is an integer from 10 to 60: 30 when the
\* retry-after header is absent or is not the text of an integer, else the
\* header's number, raised to 10 when it is less (zero and negative numbers
\* too) and lowered to 60 when it is more.
C19_WaitClamped ==
    waitOut # <<>> =>
        LET w == waitOut[1]
            n == IF hdr = <<>> THEN <<>> ELSE IntOf(hdr[1])
        IN /\ w \in 10..60
           /\ n = <<>> => w = 30
           /\ (n # <<>> /\ n[1] < 10) => w = 10
           /\ (n # <<>> /\ n[1] > 60) => w = 60
           /\ (n # <<>> /\ n[1] \in 10..60) => w = n[1]

\* the wait was computed for a header with a negative number and is 10
C19_Witness ==
    /\ waitOut = <<10>>
    /\ hdr = << <<MINUS, "1">> >>

\* C20: whenever the selection returns a line together with a fingerprint,
\* the fingerprint is _norm_mike of the returned line: the line was brought
\* to its final form, cut to the display length included, before its
\* fingerprint was taken.
C20_FingerprintOfReturned ==
    (selOut # <<>> /\ selOut[1].picked # <<>> /\ selOut[1].norm # <<>>)
        => selOut[1].norm[1] = NormMike(selOut[1].picked[1])

====
